---------------------------- MODULE Spec2Model ----------------------------
(***************************************************************************)
(* Random maze game (src/main.py): maze generation by a randomised Prim    *)
(* expansion over an adjacency matrix, the tile layout built from the      *)
(* resulting edge list, the per-axis collision resolution of the player   *)
(* in the game loop, and the dispatch of main between menus and games.     *)
(*                                                                         *)
(* Lengths are whole numbers of 1/16 pixel (Unit sub-units per pixel), a   *)
(* lattice on which every float the program computes for the grid sides    *)
(* explored here is exact.  pygame.Rect stores integers: a float handed to *)
(* it is truncated to a whole pixel (TruncPx).                             *)
(*                                                                         *)
(* Python lists are sequences; Python index i is sequence index i + 1.     *)
(* The adjacency matrix is a function on 0 .. vertex_total - 1.            *)
(***************************************************************************)
EXTENDS Integers, Sequences, FiniteSets, TLC

\* ------------------------------------------------------------------ bounds
\* Largest grid side for which maze generation is explored.
MaxSide == 3

\* Largest grid side for which the game loop is explored.
PlaySide == 2

\* Largest number of inputs (keys held down, QUIT event) in one tick.
MaxInputs == 2

\* Lattice steps in one path-square side: the resolution of the positions.
StepsPerSquare == 6

\* Longest frame time, in ticks (times sqrt(2) for the root2 frame times).
MaxTicks == 3

\* ------------------------------------------------------- program constants
WIN_WIDTH == 900

\* Sub-units per pixel of the length lattice.
Unit == 4 * 4

\* Ticks per second of the time lattice: Player.velocity is 7 path-square
\* sides per second, so an axis-aligned move of one tick covers exactly one
\* lattice step.
TicksPerSecond == 7 * StepsPerSquare

\* Grid sides handed to Game(difficulty).
Sides == 0 .. MaxSide

\* Grid sides for which the game loop is explored.
PlaySides == 2 .. PlaySide

\* The grid sides the buttons of the menu stand for.  The program's are 5,
\* 10 and 15; the played sides stand in for them here.
DIFFICULTY == PlaySides

\* Keys read by game_loop, and the QUIT event of pygame.event.get().
Keys == {"w", "s", "a", "d", "q", "r"}

\* pygame.key.get_pressed() and pygame.event.get(): the keys held in a tick,
\* with "QUIT" when the window was closed.
Inputs == {ks \in SUBSET (Keys \cup {"QUIT"}) : Cardinality(ks) <= MaxInputs}

\* Frame times perf_counter() can yield: k ticks, or k * sqrt(2) ticks when
\* root2 holds (the times for which a diagonal move lands on the lattice).
DeltaTimes == [k : 1 .. MaxTicks, root2 : BOOLEAN]

VARIABLES
    pc,                \* position in main / Game.__init__ / game_loop
    difficulty,        \* main: difficulty
    squares_across,    \* Game.squares_across
    matrix,            \* AdjacencyMatrix.matrix, indexed [row][column]
    visited_vertices,  \* random_prims: visited_vertices
    edge_list,         \* AdjacencyMatrix.edge_list
    count,             \* random_prims: loop variable count
    path_squares,      \* Game.path_squares
    end_square,        \* Game.end_square, as Python index into path_squares
    player,            \* Game.player
    run,               \* Game.run
    won,               \* Game.won
    to_menu,           \* Game.to_menu
    delta_time,        \* Game.delta_time
    keys,              \* game_loop: inputs of the current iteration
    movement_vector,   \* game_loop: movement_vector of the current iteration
    x_complete,        \* Player.move: x_complete of the latest call
    y_complete         \* Player.move: y_complete of the latest call

genvars == <<squares_across, matrix, visited_vertices, edge_list, count>>

gridvars == <<path_squares, end_square>>

loopvars == <<run, won, to_menu, delta_time, keys, movement_vector,
              x_complete, y_complete>>

vars == <<pc, difficulty, squares_across, matrix, visited_vertices, edge_list, count,
          path_squares, end_square, player, run, won, to_menu, delta_time,
          keys, movement_vector, x_complete, y_complete>>

\* No tile referenced yet.
NoSquare == 0 - 1

\* ----------------------------------------------------------- Game geometry
squares_total(n) == n * n

\* WIN_WIDTH / squares_across, distance between base squares.
base_square(n) == (WIN_WIDTH * Unit) \div n

\* base_square / 2, side of a path square.
small_square(n) == base_square(n) \div 2

\* int() conversion of a float coordinate inside pygame.Rect.
TruncPx(v) == IF v >= 0 THEN (v \div Unit) * Unit
                        ELSE 0 - (((0 - v) \div Unit) * Unit)

\* pygame.Rect(x, y, w, h)
Rect(x, y, w, h) == [x |-> TruncPx(x), y |-> TruncPx(y),
                     w |-> TruncPx(w), h |-> TruncPx(h)]

\* Square(game, x, y, colour)
Square(n, x, y, colour) ==
    [x |-> x, y |-> y, colour |-> colour,
     rect |-> Rect(x, y, small_square(n), small_square(n))]

\* ------------------------------------------------------- AdjacencyMatrix
ZeroRow(total) == [c \in 0 .. total - 1 |-> 0]

EmptyMatrix(total) == [r \in 0 .. total - 1 |-> ZeroRow(total)]

\* matrix[r][c] = 1
SetCell(m, r, c) == [m EXCEPT ![r] = [m[r] EXCEPT ![c] = 1]]

\* Variant of SameRow that accepts any vertex of the grid.
SameRowWrap(n, vertex, adj_pos) == 0 <= adj_pos /\ adj_pos < n * n
\* Is adj_pos on the same row as vertex (comparison of the floor divisions).
SameRow(n, vertex, adj_pos) == (adj_pos \div n) = (vertex \div n)

\* Variant of FillVertex whose test for the vertex above is strict.
FillVertexStrictAbove(m, n, vertex) ==
    LET total == squares_total(n)
        left  == IF SameRow(n, vertex, vertex - 1)
                 THEN SetCell(m, vertex, vertex - 1) ELSE m
        right == IF SameRow(n, vertex, vertex + 1)
                 THEN SetCell(left, vertex, vertex + 1) ELSE left
        above == IF 0 < vertex - n
                 THEN SetCell(right, vertex, vertex - n) ELSE right
        below == IF vertex + n < total
                 THEN SetCell(above, vertex, vertex + n) ELSE above
    IN  below
\* The four conditional assignments for one vertex.
FillVertex(m, n, vertex) ==
    LET total == squares_total(n)
        left  == IF SameRow(n, vertex, vertex - 1)
                 THEN SetCell(m, vertex, vertex - 1) ELSE m
        right == IF SameRow(n, vertex, vertex + 1)
                 THEN SetCell(left, vertex, vertex + 1) ELSE left
        above == IF 0 <= vertex - n
                 THEN SetCell(right, vertex, vertex - n) ELSE right
        below == IF vertex + n < total
                 THEN SetCell(above, vertex, vertex + n) ELSE above
    IN  below

RECURSIVE FillFrom(_, _, _)
\* for vertex in range(vertex_total), from vertex onward
FillFrom(m, n, vertex) ==
    IF vertex >= squares_total(n) THEN m
    ELSE FillFrom(FillVertex(m, n, vertex), n, vertex + 1)

\* AdjacencyMatrix(game).matrix
AdjacencyMatrix(n) == FillFrom(EmptyMatrix(squares_total(n)), n, 0)

\* -------------------------------------------------------- random_prims
RECURSIVE RowsForButLast(_, _, _, _)
\* Variant of RowsFor that stops one row early.
RowsForButLast(m, total, column, row) ==
    IF row >= total - 1 THEN <<>>
    ELSE (IF m[row][column] = 1 THEN << <<row, column>> >> ELSE <<>>)
         \o RowsForButLast(m, total, column, row + 1)
RECURSIVE RowsFor(_, _, _, _)
\* inner comprehension: rows of one visited column, in increasing row order
RowsFor(m, total, column, row) ==
    IF row >= total THEN <<>>
    ELSE (IF m[row][column] = 1 THEN << <<row, column>> >> ELSE <<>>)
         \o RowsFor(m, total, column, row + 1)

RECURSIVE AvailableFrom(_, _, _, _)
\* outer comprehension: for column in visited_vertices
AvailableFrom(m, total, visited, i) ==
    IF i > Len(visited) THEN <<>>
    ELSE RowsFor(m, total, visited[i], 0)
         \o AvailableFrom(m, total, visited, i + 1)

RECURSIVE AllVertices(_, _)
\* the list v, v + 1, ..., total - 1
AllVertices(total, v) ==
    IF v >= total THEN <<>> ELSE <<v>> \o AllVertices(total, v + 1)

\* Variant of available_vertices that scans every column, visited or not.
available_all_columns(m, total, visited) ==
    AvailableFrom(m, total, AllVertices(total, 0), 1)
\* random_prims, lines 120-123: available_vertices after the comprehension.
available_vertices(m, total, visited) == AvailableFrom(m, total, visited, 1)

\* Variant of ClearRow that clears the column of v as well.
ClearRowAndColumn(m, total, v) ==
    [r \in 0 .. total - 1 |->
        IF r = v THEN ZeroRow(total) ELSE [m[r] EXCEPT ![v] = 0]]

\* Variant of ClearRow that leaves the matrix as it is.
ClearNothing(m, total, v) == m

\* Variant of ClearRow that clears the column of v instead of its row.
ClearColumn(m, total, v) ==
    [r \in 0 .. total - 1 |-> [m[r] EXCEPT ![v] = 0]]

\* self.matrix[v] = [0] * self.vertex_total
ClearRow(m, total, v) == [m EXCEPT ![v] = ZeroRow(total)]

\* --------------------------------------------------------- create_grid
RECURSIVE BaseSquaresDense(_, _, _, _)
\* Variant of BaseSquares that spaces the squares by small_square.
BaseSquaresDense(n, k, row, column) ==
    IF k >= squares_total(n) THEN <<>>
    ELSE LET wrap == (column = n)
             c == IF wrap THEN 0 ELSE column
             r == IF wrap THEN row + 1 ELSE row
         IN  << Square(n, r * small_square(n) + small_square(n),
                          c * small_square(n) + small_square(n), "Black") >>
             \o BaseSquaresDense(n, k + 1, r, c + 1)
RECURSIVE BaseSquares(_, _, _, _)
\* first loop of create_grid, with its running row and column counters
BaseSquares(n, k, row, column) ==
    IF k >= squares_total(n) THEN <<>>
    ELSE LET wrap == (column = n)
             c == IF wrap THEN 0 ELSE column
             r == IF wrap THEN row + 1 ELSE row
         IN  << Square(n, r * base_square(n) + small_square(n),
                          c * base_square(n) + small_square(n), "Black") >>
             \o BaseSquares(n, k + 1, r, c + 1)

\* Variant of MarkLast that colours the first square.
MarkFirst(squares) ==
    IF Len(squares) = 0 THEN squares
    ELSE [squares EXCEPT ![1] = [@ EXCEPT !.colour = "Green"]]

\* path_squares[-1].colour = Green
MarkLast(squares) ==
    [squares EXCEPT ![Len(squares)] = [@ EXCEPT !.colour = "Green"]]

\* Variant of Connector that puts the square on the edge's first end.
ConnectorAtFrom(n, squares, edge) ==
    Square(n, squares[edge[1] + 1].x, squares[edge[1] + 1].y, "Black")

\* one connector square for an edge: midpoint of the two base squares
Connector(n, squares, edge) ==
    Square(n, (squares[edge[1] + 1].x + squares[edge[2] + 1].x) \div 2,
              (squares[edge[1] + 1].y + squares[edge[2] + 1].y) \div 2,
              "Black")

RECURSIVE ConnectorsButLast(_, _, _, _)
\* Variant of Connectors that leaves out the last edge of the list.
ConnectorsButLast(n, squares, edges, i) ==
    IF i >= Len(edges) THEN squares
    ELSE ConnectorsButLast(n, Append(squares,
                                     Connector(n, squares, edges[i])),
                           edges, i + 1)
RECURSIVE Connectors(_, _, _, _)
\* second loop of create_grid: appends while reading the growing list
Connectors(n, squares, edges, i) ==
    IF i > Len(edges) THEN squares
    ELSE Connectors(n, Append(squares, Connector(n, squares, edges[i])),
                    edges, i + 1)

\* Variant of create_grid that lays out the base squares only.
create_grid_bases_only(n, edges) == MarkLast(BaseSquares(n, 0, 0, 0))
\* Game.create_grid(edge_list): the resulting path_squares
create_grid(n, edges) ==
    Connectors(n, MarkLast(BaseSquares(n, 0, 0, 0)), edges, 1)

\* ------------------------------------------------------------- Player
\* pygame.Rect.collidepoint(point): the point's floats are converted to
\* whole pixels; the left and top sides are inside, the right and bottom
\* sides are not.
collidepoint(rect, point) ==
    LET px == TruncPx(point[1])
        py == TruncPx(point[2])
    IN  /\ rect.x <= px /\ px < rect.x + rect.w
        /\ rect.y <= py /\ py < rect.y + rect.h

\* Variant of contains that accepts any overlap of the two rectangles.
colliderect(rect, other) ==
    /\ rect.x < other.x + other.w
    /\ rect.y < other.y + other.h
    /\ rect.x + rect.w > other.x
    /\ rect.y + rect.h > other.y
\* pygame.Rect.contains(other)
contains(rect, other) ==
    /\ rect.x <= other.x
    /\ rect.y <= other.y
    /\ rect.x + rect.w >= other.x + other.w
    /\ rect.y + rect.h >= other.y + other.h
    /\ rect.x + rect.w > other.x
    /\ rect.y + rect.h > other.y

\* Player(x, y, width, velocity)
Player(x, y, width, velocity) ==
    [pos |-> <<x, y>>, width |-> width, collide_margin |-> 1 * Unit,
     velocity |-> velocity, rect |-> Rect(x, y, width, width)]

\* The placeholder before Game.__init__ has created the player.
NoPlayer == Player(0, 0, 0, 0)

\* Player.gen_corners(coordinate), in the order of the returned list
gen_corners(p, coordinate) ==
    LET top_right == <<coordinate[1] + p.collide_margin,
                       coordinate[2] + p.collide_margin>>
        top_left  == <<coordinate[1] + p.width - p.collide_margin,
                       coordinate[2] + p.collide_margin>>
        bot_left  == <<coordinate[1] + p.collide_margin,
                       coordinate[2] + p.width - p.collide_margin>>
        bot_right == <<coordinate[1] + p.width - p.collide_margin,
                       coordinate[2] + p.width - p.collide_margin>>
    IN  <<top_left, top_right, bot_left, bot_right>>

\* The player created by Game.__init__ and by back_to_start.
StartPlayer(n, squares) ==
    LET player_width == small_square(n) \div 4
    IN  Player(squares[1].x + (small_square(n) - player_width) \div 2,
               squares[1].y + (small_square(n) - player_width) \div 2,
               player_width,
               7 * small_square(n))

\* pygame.math.Vector2(): the zero vector.  root2 tells that both components
\* stand for the value divided by sqrt(2).
Vector2 == [x |-> 0, y |-> 0, root2 |-> FALSE]

\* game_loop, lines 226-234: the vector added up from the movement keys.
KeyVector(pressed) ==
    [x |-> (IF "d" \in pressed THEN 1 ELSE 0)
             - (IF "a" \in pressed THEN 1 ELSE 0),
     y |-> (IF "s" \in pressed THEN 1 ELSE 0)
             - (IF "w" \in pressed THEN 1 ELSE 0),
     root2 |-> FALSE]

\* Player.move, lines 406-407: a vector of magnitude sqrt(2) is normalised;
\* root2 records that both components are divided by sqrt(2).
Normalize(v) ==
    IF ~ (v.x * v.x + v.y * v.y = 0 \/ v.x * v.x + v.y * v.y = 1)
    THEN [v EXCEPT !.root2 = TRUE] ELSE v

\* The frame time and the vector give a displacement on the lattice: the
\* factors sqrt(2) of a root2 frame time and 1/sqrt(2) of a normalised
\* diagonal cancel.
OnLattice(v, dt) == (v.x = 0 /\ v.y = 0) \/ (v.root2 = dt.root2)

\* Variant of Displacement with the component taken one too large.
DisplacementDrift(component, velocity, dt) ==
    (component + 1) * ((velocity * dt.k) \div TicksPerSecond)
\* component * self.velocity * game.delta_time
Displacement(component, velocity, dt) ==
    component * ((velocity * dt.k) \div TicksPerSecond)

\* delta_time > num / den seconds
LongerThan(dt, num, den) ==
    (IF dt.root2 THEN 2 ELSE 1) * (den * dt.k) * (den * dt.k)
        > (num * TicksPerSecond) * (num * TicksPerSecond)

\* Variant of Stall with the threshold at 0.6 s.
StallLax(dt) == LongerThan(dt, 6, 10)

\* game_loop, line 206: self.delta_time > 0.06
Stall(dt) == LongerThan(dt, 6, 100)

AllTrue(flags) == \A c \in 1 .. 4 : flags[c]

\* Player.move, lines 424-430 (and 433-439 for y): one corner of one path
\* square against the list of flags of one axis.
CheckCorner(on_path, complete, rect, point, corner) ==
    IF complete THEN on_path
    ELSE IF collidepoint(rect, point) THEN [on_path EXCEPT ![corner] = TRUE]
    ELSE on_path

\* The scan state after a corner: the flags and the two completions.
ScanState(opx, opy, xc, yc) ==
    [opx |-> opx, opy |-> opy, xc |-> xc \/ AllTrue(opx),
     yc |-> yc \/ AllTrue(opy)]

\* Player.move, lines 422-439: one corner of one path square, on both axes.
\* st holds on_path_for_x, on_path_for_y, x_complete and y_complete.
ScanCorner(rect, corners_for_x, corners_for_y, st, corner) ==
    ScanState(CheckCorner(st.opx, st.xc, rect, corners_for_x[corner], corner),
              CheckCorner(st.opy, st.yc, rect, corners_for_y[corner], corner),
              st.xc, st.yc)

\* Player.move, line 422: for corner in range(4), on one path square.
ScanSquare(rect, corners_for_x, corners_for_y, st) ==
    ScanCorner(rect, corners_for_x, corners_for_y,
      ScanCorner(rect, corners_for_x, corners_for_y,
        ScanCorner(rect, corners_for_x, corners_for_y,
          ScanCorner(rect, corners_for_x, corners_for_y, st, 1), 2), 3), 4)

RECURSIVE Scan(_, _, _, _, _)
\* Player.move, line 421: for path_square in game.path_squares, from the
\* i-th on.  Once both axes are complete no later iteration changes st.
Scan(squares, corners_for_x, corners_for_y, st, i) ==
    IF i > Len(squares) \/ (st.xc /\ st.yc) THEN st
    ELSE Scan(squares, corners_for_x, corners_for_y,
              ScanSquare(squares[i].rect, corners_for_x, corners_for_y, st),
              i + 1)

\* Variant of Commit in which a committed x axis leaves the y axis as it is.
CommitFirstAxis(p, next_x, next_y, st) ==
    [player |-> [p EXCEPT
                   !.pos = <<IF st.xc THEN next_x ELSE p.pos[1],
                             IF st.yc /\ ~ st.xc THEN next_y ELSE p.pos[2]>>,
                   !.rect = Rect(IF st.xc THEN next_x ELSE p.pos[1],
                                 IF st.yc /\ ~ st.xc THEN next_y
                                 ELSE p.pos[2],
                                 p.width, p.width)],
     x_complete |-> st.xc,
     y_complete |-> st.yc]
\* Player.move, lines 441-448: commit each axis whose scan completed and
\* refresh the rectangle.  st is the scan state the loops ended with.
Commit(p, next_x, next_y, st) ==
    [player |-> [p EXCEPT
                   !.pos = <<IF st.xc THEN next_x ELSE p.pos[1],
                             IF st.yc THEN next_y ELSE p.pos[2]>>,
                   !.rect = Rect(IF st.xc THEN next_x ELSE p.pos[1],
                                 IF st.yc THEN next_y ELSE p.pos[2],
                                 p.width, p.width)],
     x_complete |-> st.xc,
     y_complete |-> st.yc]

\* Variant of Resolve that tests both axes at the joint candidate position.
ResolveJointly(p, squares, next_x, next_y) ==
    Scan(squares,
         gen_corners(p, <<next_x, next_y>>),
         gen_corners(p, <<next_x, next_y>>),
         [opx |-> <<FALSE, FALSE, FALSE, FALSE>>,
          opy |-> <<FALSE, FALSE, FALSE, FALSE>>,
          xc |-> FALSE, yc |-> FALSE],
         1)
\* Player.move, lines 412-439: the corners of the two candidate positions
\* and the scan over them.
Resolve(p, squares, next_x, next_y) ==
    Scan(squares,
         gen_corners(p, <<next_x, p.pos[2]>>),
         gen_corners(p, <<p.pos[1], next_y>>),
         [opx |-> <<FALSE, FALSE, FALSE, FALSE>>,
          opy |-> <<FALSE, FALSE, FALSE, FALSE>>,
          xc |-> FALSE, yc |-> FALSE],
         1)

\* Player.move(game, movement_vector): the player afterwards, and the two
\* completion flags.
move(p, squares, vector, dt) ==
    LET v == Normalize(vector)
        next_x == p.pos[1] + Displacement(v.x, p.velocity, dt)
        next_y == p.pos[2] + Displacement(v.y, p.velocity, dt)
    IN  Commit(p, next_x, next_y, Resolve(p, squares, next_x, next_y))

\* ------------------------------------------------------------------ Init
Init ==
    /\ pc = "start"
    /\ difficulty = 0
    /\ squares_across = 0
    /\ matrix = <<>>
    /\ visited_vertices = <<>>
    /\ edge_list = <<>>
    /\ count = 0
    /\ path_squares = <<>>
    /\ end_square = NoSquare
    /\ player = NoPlayer
    /\ run = FALSE
    /\ won = FALSE
    /\ to_menu = FALSE
    /\ delta_time = [k |-> 0, root2 |-> FALSE]
    /\ keys = {}
    /\ movement_vector = Vector2
    /\ x_complete = FALSE
    /\ y_complete = FALSE

\* Game.__init__, lines 135-147: sizes and the AdjacencyMatrix.  A side of 0
\* raises ZeroDivisionError at WIN_WIDTH / squares_across.
NewGame(n) ==
    /\ pc = "start"
    /\ squares_across' = n
    /\ IF n = 0
       THEN /\ pc' = "crashed"
            /\ UNCHANGED matrix
       ELSE /\ pc' = "matrix_built"
            /\ matrix' = AdjacencyMatrix(n)
    /\ UNCHANGED <<difficulty, visited_vertices, edge_list, count, gridvars,
                   player, loopvars>>

\* random_prims, lines 113-118: start at vertex 0.
PrimsBegin ==
    /\ pc = "matrix_built"
    /\ visited_vertices' = <<0>>
    /\ matrix' = ClearRow(matrix, squares_total(squares_across), 0)
    /\ edge_list' = <<>>
    /\ count' = 0
    /\ pc' = "prims"
    /\ UNCHANGED <<difficulty, squares_across, gridvars, player, loopvars>>

\* random_prims, lines 119-131: one iteration of the loop.  random.choice of
\* an empty list raises IndexError.
PrimsStep ==
    /\ pc = "prims"
    /\ count < squares_total(squares_across) - 1
    /\ LET total == squares_total(squares_across)
           available == available_vertices(matrix, total, visited_vertices)
       IN  IF Len(available) = 0
           THEN /\ pc' = "crashed"
                /\ UNCHANGED <<matrix, visited_vertices, edge_list, count>>
           ELSE \E i \in 1 .. Len(available) :
                  LET chosen_edge == available[i]
                  IN  /\ edge_list' = Append(edge_list, chosen_edge)
                      /\ matrix' = ClearRow(matrix, total, chosen_edge[1])
                      /\ visited_vertices' =
                             Append(visited_vertices, chosen_edge[1])
                      /\ count' = count + 1
                      /\ pc' = "prims"
    /\ UNCHANGED <<difficulty, squares_across, gridvars, player, loopvars>>

\* Game.__init__, lines 151-165, once random_prims has returned: the grid,
\* the player and the loop flags.
CreateGrid ==
    /\ pc = "prims"
    /\ count >= squares_total(squares_across) - 1
    /\ path_squares' = create_grid(squares_across, edge_list)
    /\ end_square' = squares_total(squares_across) - 1
    /\ player' = StartPlayer(squares_across, path_squares')
    /\ run' = TRUE
    /\ won' = FALSE
    /\ to_menu' = FALSE
    /\ pc' = "ready"
    /\ UNCHANGED <<difficulty, genvars, delta_time, keys, movement_vector,
                   x_complete, y_complete>>

\* game_loop, lines 194-197.
GameLoopBegin ==
    /\ pc = "ready"
    /\ run' = TRUE
    /\ pc' = "loop"
    /\ UNCHANGED <<difficulty, genvars, gridvars, player, won, to_menu,
                   delta_time, keys, movement_vector, x_complete,
                   y_complete>>

\* Variant of back_to_start that puts the player on the corner of the tile.
back_to_corner(n, squares) ==
    Player(squares[1].x, squares[1].y, small_square(n) \div 4,
           7 * small_square(n))
\* Game.back_to_start(): the recreated player.
back_to_start(n, squares) == StartPlayer(n, squares)

\* game_loop, lines 200-234: an iteration of the loop up to the call of
\* Player.move, for the frame time dt and the inputs pressed in the tick.  A
\* frame time over the threshold skips the iteration before any input is
\* read.
Tick(dt, pressed) ==
    /\ pc = "loop"
    /\ delta_time' = dt
    /\ IF Stall(dt)
       THEN /\ pressed = {}
            /\ UNCHANGED <<pc, player, run, to_menu, keys, movement_vector,
                           x_complete, y_complete>>
       ELSE /\ OnLattice(Normalize(KeyVector(pressed)), dt)
            /\ keys' = pressed
            /\ run' = ~ ("QUIT" \in pressed \/ "q" \in pressed)
            /\ to_menu' = (to_menu \/ "q" \in pressed)
            /\ player' = IF "r" \in pressed
                         THEN back_to_start(squares_across, path_squares)
                         ELSE player
            /\ movement_vector' = KeyVector(pressed)
            /\ UNCHANGED <<x_complete, y_complete>>
            /\ pc' = "moving"
    /\ UNCHANGED <<difficulty, genvars, gridvars, won>>

\* game_loop, lines 235-249: the rest of the iteration, Player.move and the
\* check of the end square; the loop is left when run has become false.
\* The inputs of an iteration are dead once it is over: the next iteration
\* reads new ones, and only the last iteration's stay to be looked at.
MovePlayer ==
    /\ pc = "moving"
    /\ \E moved \in {move(player, path_squares, movement_vector,
                          delta_time)} :
         \E in_end \in {contains(path_squares[end_square + 1].rect,
                                 moved.player.rect)} :
           /\ player' = moved.player
           /\ x_complete' = moved.x_complete
           /\ y_complete' = moved.y_complete
           /\ won' = (won \/ in_end)
           /\ run' = (run /\ ~ in_end)
           /\ pc' = IF run /\ ~ in_end THEN "loop" ELSE "ended"
           /\ keys' = IF run /\ ~ in_end THEN {} ELSE keys
    /\ movement_vector' = Vector2
    /\ UNCHANGED <<difficulty, genvars, gridvars, to_menu, delta_time>>

Next ==
    \/ \E n \in Sides : NewGame(n)
    \/ PrimsBegin
    \/ PrimsStep
    \/ CreateGrid

Spec == Init /\ [][Next]_vars

\* Construction for the played sides, followed by the game loop.
NextGame ==
    \/ \E n \in PlaySides : NewGame(n)
    \/ PrimsBegin
    \/ PrimsStep
    \/ CreateGrid
    \/ GameLoopBegin
    \/ \E dt \in DeltaTimes, pressed \in Inputs : Tick(dt, pressed)
    \/ MovePlayer

SpecGame == Init /\ [][NextGame]_vars

\* ------------------------------------------------------------------ main
\* main, lines 460-464: the main menu is shown before any Game exists.
InitMain ==
    /\ pc = "menu"
    /\ difficulty = 0
    /\ squares_across = 0
    /\ matrix = <<>>
    /\ visited_vertices = <<>>
    /\ edge_list = <<>>
    /\ count = 0
    /\ path_squares = <<>>
    /\ end_square = NoSquare
    /\ player = NoPlayer
    /\ run = FALSE
    /\ won = FALSE
    /\ to_menu = FALSE
    /\ delta_time = [k |-> 0, root2 |-> FALSE]
    /\ keys = {}
    /\ movement_vector = Vector2
    /\ x_complete = FALSE
    /\ y_complete = FALSE

\* Menu.display_loop (the EndScreen inherits it) for a frame with an event,
\* and what main does when it returns.  quit: the window was closed; click:
\* the difficulty of the button clicked, 0 when none was.  The loop ends on
\* exit or run_game, and main looks at exit first; a chosen difficulty
\* takes main to Game(difficulty), and the Game played before is dropped.
DisplayLoop(quit, click) ==
    /\ pc \in {"menu", "end_screen"}
    /\ quit \/ click # 0
    /\ IF quit
       THEN /\ pc' = "exited"
            /\ UNCHANGED <<difficulty, genvars, gridvars, player, loopvars>>
       ELSE /\ pc' = "start"
            /\ difficulty' = click
            /\ squares_across' = 0
            /\ matrix' = <<>>
            /\ visited_vertices' = <<>>
            /\ edge_list' = <<>>
            /\ count' = 0
            /\ path_squares' = <<>>
            /\ end_square' = NoSquare
            /\ player' = NoPlayer
            /\ run' = FALSE
            /\ won' = FALSE
            /\ to_menu' = FALSE
            /\ delta_time' = [k |-> 0, root2 |-> FALSE]
            /\ keys' = {}
            /\ movement_vector' = Vector2
            /\ x_complete' = FALSE
            /\ y_complete' = FALSE

\* main, lines 478-503, after game_loop has returned: the end screen when
\* the maze was completed, else the main menu when to_menu is set, else the
\* exit from the loop and from the program.
Dispatch ==
    /\ pc = "ended"
    /\ pc' = IF won THEN "end_screen"
             ELSE IF to_menu THEN "menu"
             ELSE "exited"
    /\ UNCHANGED <<difficulty, genvars, gridvars, player, loopvars>>

\* The whole program: menus, construction and game loop in turn.
NextMain ==
    \/ \E quit \in BOOLEAN, click \in DIFFICULTY \cup {0} :
          DisplayLoop(quit, click)
    \/ NewGame(difficulty)
    \/ PrimsBegin
    \/ PrimsStep
    \/ CreateGrid
    \/ GameLoopBegin
    \/ \E dt \in DeltaTimes, pressed \in Inputs : Tick(dt, pressed)
    \/ MovePlayer
    \/ Dispatch

SpecMain == InitMain /\ [][NextMain]_vars


\* =================================================================
\* Properties
\* =================================================================
Vertices(n) == 0 .. squares_total(n) - 1

GridRow(n, v) == v \div n

GridColumn(n, v) == v % n

Distance(a, b) == IF a >= b THEN a - b ELSE b - a

\* u and v are orthogonal neighbours in the n x n grid
OrthAdjacent(n, u, v) ==
    \/ GridRow(n, u) = GridRow(n, v)
       /\ Distance(GridColumn(n, u), GridColumn(n, v)) = 1
    \/ GridColumn(n, u) = GridColumn(n, v)
       /\ Distance(GridRow(n, u), GridRow(n, v)) = 1

\* random_prims has returned
PrimsDone ==
    \/ pc \in {"ready", "loop", "moving", "ended"}
    \/ pc = "prims" /\ count >= squares_total(squares_across) - 1

\* Game.__init__ has returned
Constructed == pc \in {"ready", "loop", "moving", "ended"}

\* the edges of a list as unordered pairs
Undirected(edges) == {{edges[i][1], edges[i][2]} : i \in 1 .. Len(edges)}

RECURSIVE ReachFrom(_, _)
\* the vertices joined to a vertex of seen by edges of E
ReachFrom(seen, E) ==
    LET more == seen \cup UNION {e \in E : e \cap seen # {}}
    IN  IF more = seen THEN seen ELSE ReachFrom(more, E)

RECURSIVE Forest(_)
\* no cycle in E: stripping leaves over and over removes every edge
Forest(E) ==
    IF E = {} THEN TRUE
    ELSE LET leaves == {v \in UNION E :
                          Cardinality({e \in E : v \in e}) = 1}
         IN  IF leaves = {} THEN FALSE
             ELSE Forest({e \in E : e \cap leaves = {}})

\* C1: for every side n >= 2 and every sequence of random choices,
\* random_prims ends with n^2-1 edges that touch all n^2 vertices and form a
\* connected acyclic graph whose edges join orthogonal grid neighbours.
C1_SpanningTree ==
    (PrimsDone /\ squares_across >= 2) =>
        LET n == squares_across
            E == Undirected(edge_list)
        IN  /\ Len(edge_list) = squares_total(n) - 1
            /\ Cardinality(E) = squares_total(n) - 1
            /\ UNION E = Vertices(n)
            /\ ReachFrom({0}, E) = Vertices(n)
            /\ Forest(E)
            /\ \A i \in 1 .. Len(edge_list) :
                   OrthAdjacent(n, edge_list[i][1], edge_list[i][2])

C1_Witness ==
    /\ pc = "prims"
    /\ squares_across = 3
    /\ count = 8
    /\ Len(edge_list) = 8

SharesSide(a, b, side) ==
    \/ a.x = b.x /\ Distance(a.y, b.y) = side
    \/ a.y = b.y /\ Distance(a.x, b.x) = side

RECURSIVE TilesFrom(_, _, _)
TilesFrom(seen, squares, side) ==
    LET more == seen \cup
                {j \in 1 .. Len(squares) :
                   \E i \in seen : SharesSide(squares[i], squares[j], side)}
    IN  IF more = seen THEN seen ELSE TilesFrom(more, squares, side)

\* C5: in every maze built by create_grid (n >= 2) every tile of
\* path_squares is reached from the start tile by a chain of tiles in which
\* consecutive tiles share a full side; the search reaches all 2n^2-1 tiles.
C5_AllTilesReachable ==
    (Constructed /\ squares_across >= 2) =>
        /\ TilesFrom({1}, path_squares, small_square(squares_across))
               = 1 .. Len(path_squares)
        /\ Cardinality(TilesFrom({1}, path_squares,
                                 small_square(squares_across)))
               = 2 * squares_total(squares_across) - 1

C5_Witness ==
    /\ pc = "ready"
    /\ squares_across = 3
    /\ Len(path_squares) = 17
    /\ 17 \in TilesFrom({1}, path_squares, small_square(3))

\* C6 as claimed: a grid side below 2 aborts the construction, and no maze
\* (no tile set, no playable Game) is exposed for it.
C6_SmallSideAborts ==
    (pc # "start" /\ squares_across < 2) =>
        (path_squares = <<>> /\ ~ Constructed)

\* C7: for n >= 2, in each of the n^2-1 iterations of random_prims the list
\* of available pairs is non-empty, so the random choice never fails and
\* the generation runs to completion.
C7_AlwaysACandidate ==
    squares_across >= 2 =>
        /\ pc # "crashed"
        /\ (pc = "prims" /\ count < squares_total(squares_across) - 1) =>
               Len(available_vertices(matrix,
                                      squares_total(squares_across),
                                      visited_vertices)) > 0

C7_Witness ==
    /\ pc = "prims"
    /\ squares_across = 3
    /\ count = 7
    /\ Len(available_vertices(matrix, 9, visited_vertices)) = 2

\* C8: create_grid produces exactly 2n^2-1 tiles, the n^2 base tiles in
\* row-major order followed by the n^2-1 connectors; the tile at index
\* n^2-1 is the only green one and end_square refers to it.
C8_TileCountAndGoal ==
    Constructed =>
        LET n == squares_across
        IN  /\ Len(path_squares) = 2 * squares_total(n) - 1
            /\ \A k \in Vertices(n) :
                   /\ path_squares[k + 1].x
                          = GridRow(n, k) * base_square(n) + small_square(n)
                   /\ path_squares[k + 1].y
                          = GridColumn(n, k) * base_square(n)
                              + small_square(n)
            /\ \A i \in 1 .. Len(path_squares) :
                   (path_squares[i].colour = "Green")
                       <=> (i = squares_total(n))
            /\ end_square = squares_total(n) - 1

C8_Witness ==
    /\ pc = "ready"
    /\ squares_across = 3
    /\ Len(path_squares) = 17
    /\ path_squares[9].colour = "Green"
    /\ end_square = 8

\* C9: for n >= 2, right after the AdjacencyMatrix is constructed,
\* matrix[u][v] = 1 exactly when u and v are orthogonal grid neighbours; the
\* matrix is symmetric with a zero diagonal, and the end of one row is not
\* adjacent to the start of the next.
C9_MatrixIsGridAdjacency ==
    (pc = "matrix_built" /\ squares_across >= 2) =>
        LET n == squares_across
        IN  /\ DOMAIN matrix = Vertices(n)
            /\ \A u, v \in Vertices(n) :
                   /\ matrix[u][v] \in {0, 1}
                   /\ (matrix[u][v] = 1) <=> OrthAdjacent(n, u, v)
                   /\ matrix[u][v] = matrix[v][u]
            /\ \A u \in Vertices(n) : matrix[u][u] = 0
            /\ \A r \in 1 .. n - 1 :
                   /\ matrix[r * n - 1][r * n] = 0
                   /\ matrix[r * n][r * n - 1] = 0

C9_Witness ==
    /\ pc = "matrix_built"
    /\ squares_across = 3
    /\ matrix[2][3] = 0
    /\ matrix[4][5] = 1
    /\ matrix[4][1] = 1

\* every margin-inset corner of p placed at coordinate lies in a path tile
OnPath(p, coordinate) ==
    \A c \in 1 .. 4 :
        \E i \in 1 .. Len(path_squares) :
            collidepoint(path_squares[i].rect, gen_corners(p, coordinate)[c])

\* C2 as claimed: from the start position and after any sequence of moves
\* and restarts, each of the four margin-inset corners of the Body lies
\* inside at least one path tile.
C2_BodyOnPath ==
    pc \in {"ready", "loop", "moving", "ended"} => OnPath(player, player.pos)

\* the candidate coordinates of the move about to be made
NextX == player.pos[1]
           + Displacement(Normalize(movement_vector).x, player.velocity,
                          delta_time)

NextY == player.pos[2]
           + Displacement(Normalize(movement_vector).y, player.velocity,
                          delta_time)

\* C3: in one Player.move call x becomes next_x exactly when all four
\* margin-inset corners of the Body at (next_x, current y) are on path
\* tiles, and is kept otherwise; y becomes next_y exactly when all four
\* corners at (current x, next_y) are on path tiles, and is kept otherwise.
C3_AxesIndependent ==
    [][pc = "moving" =>
         /\ player'.pos[1] = IF OnPath(player, <<NextX, player.pos[2]>>)
                             THEN NextX ELSE player.pos[1]
         /\ player'.pos[2] = IF OnPath(player, <<player.pos[1], NextY>>)
                             THEN NextY ELSE player.pos[2]]_vars

\* a diagonal move has just been blocked on x and committed on y
C3_Witness ==
    /\ pc = "loop"
    /\ delta_time.root2
    /\ ~ LongerThan(delta_time, 6, 100)
    /\ ~ x_complete
    /\ y_complete
    /\ OnPath(player, player.pos)

\* C10: a frame whose elapsed time exceeds 0.06 s is skipped entirely: the
\* Body, run, won and to_menu keep their values and the loop goes on.
C10_StallSkipped ==
    [][(pc = "loop" /\ LongerThan(delta_time', 6, 100)) =>
         /\ player' = player
         /\ run' = run
         /\ won' = won
         /\ to_menu' = to_menu
         /\ pc' = "loop"]_vars

\* a stalled frame after the Body has left the start position
C10_Witness ==
    /\ pc = "loop"
    /\ LongerThan(delta_time, 6, 100)
    /\ player.pos # StartPlayer(squares_across, path_squares).pos
    /\ run
    /\ ~ won

\* every point of the rectangle inner is a point of the rectangle outer
RectInside(inner, outer) ==
    /\ outer.x <= inner.x
    /\ outer.y <= inner.y
    /\ inner.x + inner.w <= outer.x + outer.w
    /\ inner.y + inner.h <= outer.y + outer.h

\* the rectangle of the goal tile
GoalRect == path_squares[end_square + 1].rect

\* C11: in a processed frame, after the movement, won becomes true and the
\* loop stops exactly when the Body's full rectangle lies inside the goal
\* tile's rectangle; no other step of the loop sets won.
C11_WonIffInGoal ==
    [][/\ pc = "moving" =>
            /\ won' = RectInside(player'.rect, GoalRect)
            /\ won' => (~ run' /\ pc' = "ended")
       /\ pc = "loop" => (won' = won /\ ~ won')]_vars

\* the level has just been won by a move into the goal tile
C11_Witness ==
    /\ pc = "ended"
    /\ won
    /\ ~ run
    /\ keys \cap {"w", "a", "s", "d"} # {}
    /\ RectInside(player.rect, GoalRect)
    /\ player.pos # StartPlayer(squares_across, path_squares).pos

\* p is the Body as Game.__init__ creates it: centred in tile 0, a quarter
\* of the tile side wide
FreshAtStart(p) ==
    /\ p = StartPlayer(squares_across, path_squares)
    /\ 2 * (p.pos[1] - path_squares[1].x) + p.width
           = small_square(squares_across)
    /\ 2 * (p.pos[2] - path_squares[1].y) + p.width
           = small_square(squares_across)

\* C12: a restart ([R], Game.back_to_start) replaces the Body, wherever the
\* moves have taken it, with a fresh one at the position it had when the
\* Game was constructed, centred in tile 0; path_squares, end_square and
\* the goal tag stay as they are and nothing of the maze is generated anew.
C12_RestartResetsBodyOnly ==
    [][(pc = "loop" /\ pc' = "moving" /\ "r" \in keys') =>
         /\ FreshAtStart(player')
         /\ path_squares' = path_squares
         /\ end_square' = end_square
         /\ edge_list' = edge_list
         /\ matrix' = matrix
         /\ squares_across' = squares_across]_vars

\* a restart right after a move that a wall had blocked on the y axis, so
\* from a position away from the start
C12_Witness ==
    /\ pc = "moving"
    /\ "r" \in keys
    /\ ~ y_complete
    /\ x_complete
    /\ FreshAtStart(player)
    /\ path_squares[end_square + 1].colour = "Green"

\* all four margin-inset corners of p placed at coordinate lie in tile i
InTile(p, coordinate, i) ==
    \A c \in 1 .. 4 :
        collidepoint(path_squares[i].rect, gen_corners(p, coordinate)[c])

\* C13: when the four margin-inset corners of the Body lie in one tile and
\* the displacement of the move keeps all four in that same tile,
\* Player.move commits the whole displacement: the new position is
\* (next_x, next_y).
C13_FreeMoveCommitsBoth ==
    [][(/\ pc = "moving"
        /\ \E i \in 1 .. Len(path_squares) :
              /\ InTile(player, player.pos, i)
              /\ InTile(player, <<NextX, NextY>>, i)) =>
         player'.pos = <<NextX, NextY>>]_vars

\* a diagonal move of one tick has just been committed on both axes inside
\* the start tile
C13_Witness ==
    /\ pc = "loop"
    /\ delta_time = [k |-> 1, root2 |-> TRUE]
    /\ x_complete
    /\ y_complete
    /\ InTile(player, player.pos, 1)
    /\ player.pos[1] # StartPlayer(squares_across, path_squares).pos[1]
    /\ player.pos[2] # StartPlayer(squares_across, path_squares).pos[2]
    /\ Distance(player.pos[1],
                StartPlayer(squares_across, path_squares).pos[1])
           <= small_square(squares_across) \div StepsPerSquare

\* C14: Player.move with the zero input vector leaves the Body position as
\* it is, on the path or off it; frame after frame, so for any number of
\* frames.
C14_ZeroVectorKeepsPosition ==
    [][(pc = "moving" /\ movement_vector.x = 0 /\ movement_vector.y = 0) =>
         (player'.pos = player.pos /\ player'.rect = player.rect)]_vars

\* the last frame pressed no movement key while the Body had a corner off
\* the path, and the Body is where it was
C14_Witness ==
    /\ pc = "ended"
    /\ keys = {"q"}
    /\ ~ OnPath(player, player.pos)
    /\ ~ x_complete
    /\ ~ y_complete
    /\ player.rect = Rect(player.pos[1], player.pos[2], player.width,
                          player.width)

\* the number of entries 1 in the row of u
Degree(m, n, u) == Cardinality({v \in Vertices(n) : m[u][v] = 1})

\* on how many of the two axes u lies on the rim of the grid
RimAxes(n, u) ==
    (IF GridRow(n, u) \in {0, n - 1} THEN 1 ELSE 0)
        + (IF GridColumn(n, u) \in {0, n - 1} THEN 1 ELSE 0)

\* C15: for n >= 2 the constructed matrix has 4n(n-1) entries equal to 1,
\* that is 2n(n-1) unordered adjacent pairs, and a vertex has degree 2 when
\* it is one of the four corners, 3 when it is on the border but no corner,
\* and 4 when it is interior.
C15_PairCountAndDegrees ==
    (pc = "matrix_built" /\ squares_across >= 2) =>
        LET n == squares_across
        IN  /\ Cardinality({uv \in Vertices(n) \X Vertices(n) :
                              matrix[uv[1]][uv[2]] = 1})
                   = 4 * n * (n - 1)
            /\ Cardinality({e \in SUBSET Vertices(n) :
                              /\ Cardinality(e) = 2
                              /\ \E u, v \in e :
                                    u # v /\ matrix[u][v] = 1})
                   = 2 * n * (n - 1)
            /\ \A u \in Vertices(n) :
                   Degree(matrix, n, u) = 4 - RimAxes(n, u)
            /\ Cardinality({u \in Vertices(n) : Degree(matrix, n, u) = 2})
                   = 4

C15_Witness ==
    /\ pc = "matrix_built"
    /\ squares_across = 3
    /\ Degree(matrix, 3, 0) = 2
    /\ Degree(matrix, 3, 1) = 3
    /\ Degree(matrix, 3, 4) = 4

\* the elements of a list
Range(list) == {list[i] : i \in 1 .. Len(list)}

\* the frontier edges: pairs (row, column) with column visited, row not
\* visited, and the two adjacent in the grid
Frontier(n, visited) ==
    {rc \in Vertices(n) \X Vertices(n) :
        /\ rc[2] \in Range(visited)
        /\ rc[1] \notin Range(visited)
        /\ OrthAdjacent(n, rc[1], rc[2])}

\* C16: at every iteration of random_prims the candidate list holds the
\* frontier edges and nothing else, each once; every frontier edge can be
\* the edge the iteration chooses, and the edge an iteration has chosen was
\* a frontier edge of the vertices visited before it.
C16_CandidatesAreFrontier ==
    (pc = "prims" /\ squares_across >= 2) =>
        LET n == squares_across
            available == available_vertices(matrix, squares_total(n),
                                            visited_vertices)
        IN  /\ Range(available) = Frontier(n, visited_vertices)
            /\ Len(available) = Cardinality(Range(available))
            /\ count < squares_total(n) - 1 =>
                   \A rc \in Frontier(n, visited_vertices) :
                       ENABLED (PrimsStep
                                  /\ edge_list' = Append(edge_list, rc))
            /\ count >= 1 =>
                   edge_list[Len(edge_list)] \in
                       Frontier(n, SubSeq(visited_vertices, 1,
                                          Len(visited_vertices) - 1))

\* an iteration with several frontier edges, one of them into a vertex that
\* has two visited neighbours
C16_Witness ==
    /\ pc = "prims"
    /\ squares_across = 3
    /\ count = 4
    /\ <<4, 1>> \in Frontier(3, visited_vertices)
    /\ <<4, 3>> \in Frontier(3, visited_vertices)
    /\ Cardinality(Frontier(3, visited_vertices)) >= 4

\* no element occurs twice in the list
NoDuplicate(list) == Cardinality(Range(list)) = Len(list)

MidpointTiles(n, u, v) ==
    {j \in squares_total(n) + 1 .. Len(path_squares) :
        /\ 2 * path_squares[j].x
               = path_squares[u + 1].x + path_squares[v + 1].x
        /\ 2 * path_squares[j].y
               = path_squares[u + 1].y + path_squares[v + 1].y}

\* C19: create_grid appends one connector tile per edge (u, v) of the edge
\* list, at the midpoint of the base tiles of u and v; these are one base
\* spacing apart, the tile side is half that spacing, and the connector
\* shares a full side with each of the two base tiles.
C19_ConnectorPerEdge ==
    (Constructed /\ squares_across >= 2) =>
        LET n == squares_across
        IN  /\ Len(path_squares) = squares_total(n) + Len(edge_list)
            /\ 2 * small_square(n) = base_square(n)
            /\ \A i \in 1 .. Len(edge_list) :
                   LET u == edge_list[i][1]
                       v == edge_list[i][2]
                       tu == path_squares[u + 1]
                       tv == path_squares[v + 1]
                   IN  /\ Cardinality(MidpointTiles(n, u, v)) = 1
                       /\ MidpointTiles(n, u, v) = {squares_total(n) + i}
                       /\ Distance(tu.x, tv.x) + Distance(tu.y, tv.y)
                              = base_square(n)
                       /\ \A j \in MidpointTiles(n, u, v) :
                              /\ SharesSide(path_squares[j], tu,
                                            small_square(n))
                              /\ SharesSide(path_squares[j], tv,
                                            small_square(n))

\* a side-3 grid in which the edge between vertices 4 and 5 has its
\* connector between the two base tiles
C19_Witness ==
    /\ pc = "ready"
    /\ squares_across = 3
    /\ \E i \in 1 .. Len(edge_list) :
          /\ {edge_list[i][1], edge_list[i][2]} = {4, 5}
          /\ MidpointTiles(3, 4, 5) = {9 + i}
          /\ SharesSide(path_squares[9 + i], path_squares[5],
                        small_square(3))
          /\ SharesSide(path_squares[9 + i], path_squares[6],
                        small_square(3))

\* the frames game_loop processes, as far as the Body is concerned: the
\* vector of the movement keys held and an accepted frame time
PlayFrames ==
    {f \in [vector : {KeyVector(ks) : ks \in SUBSET {"w", "s", "a", "d"}},
            dt : DeltaTimes] :
        ~ Stall(f.dt) /\ OnLattice(Normalize(f.vector), f.dt)}

\* the Bodies one processed frame makes out of the Bodies of from
AfterOneFrame(from) ==
    {move(p, path_squares, f.vector, f.dt).player :
        p \in from, f \in PlayFrames}

RECURSIVE WinReachable(_, _)
\* some sequence of processed frames takes one of the Bodies of fresh to a
\* position where the check of the end square succeeds; seen are the
\* Bodies looked at before
WinReachable(seen, fresh) ==
    IF fresh = {} THEN FALSE
    ELSE LET next == AfterOneFrame(fresh)
         IN  IF \E p \in next : contains(GoalRect, p.rect) THEN TRUE
             ELSE WinReachable(seen \cup fresh, next \ (seen \cup fresh))

\* C20: every generated maze (n >= 2) can be solved: the game does not
\* start won, and from the start position some finite sequence of processed
\* frames, with vectors from the movement keys and accepted frame times,
\* puts the Body's rectangle inside the goal tile, where the win fires.
C20_MazeSolvable ==
    (pc = "ready" /\ squares_across >= 2) =>
        /\ ~ won
        /\ ~ contains(GoalRect, player.rect)
        /\ WinReachable({}, {player})

\* the maze whose goal vertex was connected last has been won by play
C20_Witness ==
    /\ pc = "ended"
    /\ won
    /\ squares_across = 2
    /\ edge_list[3][1] = 3
    /\ x_complete
    /\ y_complete
    /\ contains(GoalRect, player.rect)

\* C18 as claimed: after game_loop main goes by the cause of the ending: a
\* completed maze leads to the end screen, a game loop ended by [Q] to the
\* main menu, a game loop ended by the window-close event to the exit of
\* the program; a difficulty chosen on a menu or an end screen leads to a
\* fresh Game of that difficulty with a maze generated anew.
C18_DispatchByCause ==
    [][/\ pc = "ended" =>
            /\ won => pc' = "end_screen"
            /\ "q" \in keys => pc' = "menu"
            /\ "QUIT" \in keys => pc' = "exited"
            /\ pc' \in {"end_screen", "menu", "exited"}
       /\ pc \in {"menu", "end_screen"} =>
            /\ pc' \in {"start", "exited"}
            /\ pc' = "start" =>
                  /\ difficulty' \in DIFFICULTY
                  /\ edge_list' = <<>>
                  /\ path_squares' = <<>>
                  /\ ~ won' /\ ~ to_menu'
       /\ pc = "start" =>
            (squares_across' = difficulty /\ pc' = "matrix_built")
       /\ pc = "exited" => pc' = "exited"]_vars

\* the squares a and b of the given side have a point of their interiors
\* in common (the same position included)
Overlap(a, b, side) ==
    Distance(a.x, b.x) < side /\ Distance(a.y, b.y) < side

\* the tiles (indices of path_squares) that share a full side with tile i
SideNeighbours(i, side) ==
    {j \in 1 .. Len(path_squares) :
        SharesSide(path_squares[i], path_squares[j], side)}

\* the side-sharing adjacencies of path_squares, as unordered pairs
TileAdjacencies(side) ==
    UNION {{{i, j} : j \in SideNeighbours(i, side)} :
              i \in 1 .. Len(path_squares)}

\* C21: in the tile layout no two tiles have the same position or overlap,
\* a connector shares a side with the two base tiles of its own edge and
\* with no other tile, two base tiles never share a side, and so the
\* side-sharing graph over the 2n^2-1 tiles has 2n^2-2 adjacencies and is a
\* tree: connected and without a cycle.
C21_TileGraphIsTree ==
    (Constructed /\ squares_across >= 2) =>
        LET n == squares_across
            side == small_square(n)
            A == TileAdjacencies(side)
        IN  /\ Len(path_squares) = 2 * squares_total(n) - 1
            /\ \A i, j \in 1 .. Len(path_squares) :
                   i # j => ~ Overlap(path_squares[i], path_squares[j], side)
            /\ \A i \in 1 .. Len(edge_list) :
                   SideNeighbours(squares_total(n) + i, side)
                       = {edge_list[i][1] + 1, edge_list[i][2] + 1}
            /\ \A i, j \in 1 .. squares_total(n) :
                   ~ SharesSide(path_squares[i], path_squares[j], side)
            /\ Cardinality(A) = 2 * squares_total(n) - 2
            /\ \A e \in A : Cardinality(e) = 2
            /\ ReachFrom({1}, A) = 1 .. Len(path_squares)
            /\ Forest(A)

\* a side-3 layout with the connectors of the edges 0-1 and 0-3, which
\* touch at a corner only and are no neighbours of each other
C21_Witness ==
    /\ pc = "ready"
    /\ squares_across = 3
    /\ Cardinality(TileAdjacencies(small_square(3))) = 16
    /\ \E i, j \in 1 .. Len(edge_list) :
          /\ {edge_list[i][1], edge_list[i][2]} = {0, 1}
          /\ {edge_list[j][1], edge_list[j][2]} = {0, 3}
          /\ Distance(path_squares[9 + i].x, path_squares[9 + j].x)
                 = small_square(3)
          /\ Distance(path_squares[9 + i].y, path_squares[9 + j].y)
                 = small_square(3)
          /\ 9 + j \notin SideNeighbours(9 + i, small_square(3))
          /\ SideNeighbours(9 + i, small_square(3)) = {1, 2}

==========================================================================
